---- MODULE Spec2Model ----
(***************************************************************************)
(* The debate orchestrator of ai-agora-backend: the SSE handler            *)
(* app.post('/api/chat') with its prompt builders, its round loop over the *)
(* enabled providers and its moderator phase.                              *)
(*                                                                         *)
(* A text is a sequence of fragments; a fragment is the record             *)
(* [model, round, k]: the k-th non-empty delta the provider `model`        *)
(* delivered for its call of round `round` (round 0: the moderator call).  *)
(* Two texts are equal exactly when they are the same fragments in the     *)
(* same order, so loss, duplication and reordering are all visible.        *)
(***************************************************************************)
EXTENDS Integers, Sequences, FiniteSets, TLC

\* ------------------------------------------------------------------ bounds
\* Fragments delivered by all provider streams of one request together.
MaxChunks == 2
\* Provider calls of the rounds that throw, in one request.
MaxFailures == 1
\* Largest value of the body's `rounds` field that is tried.
MaxReqRounds == 4
\* Fields of the body, besides prompt and language, that differ from their
\* defaults (rounds, the use* flags taken together, moderatorEngine).
MaxOverrides == 1

\* --------------------------------------------------------------- constants
MinRounds == 1
MaxRounds == 3

Providers == {"GPT", "Claude", "Gemini"}
\* The order in which the handler pushes the tasks of a round.
TaskOrder == <<"GPT", "Claude", "Gemini">>
\* Values of body.moderatorEngine: the three engines and any other string.
Engines == Providers \cup {"Moderator"}
NoEngine == "none"
\* closedAt while the client is connected.
NotClosed == 0 - 1
\* body.language when the client sends none, for the handlers that resolve it.
NoHint == ""
\* Values of body.language: the default and one other label.
Languages == {"English", "Turkish"}

\* body.prompt: a JavaScript value, with the words of a string.
NoWords == <<>>
PromptInputs ==
  { [kind |-> "undefined", words |-> NoWords],
    [kind |-> "number", words |-> NoWords],
    [kind |-> "string", words |-> NoWords],
    [kind |-> "string", words |-> <<"what", "is", "AI">>],
    [kind |-> "string", words |-> <<"chest", "PAIN">>] }

SeriousKeywords == {"pain", "cancer", "doctor", "lawsuit", "suicide", "crisis"}

\* String.prototype.toLowerCase on the words the model uses.
ToLowerCase(w) ==
  CASE w = "AI" -> "ai"
    [] w = "PAIN" -> "pain"
    [] OTHER -> w

VARIABLES
  pc,               \* position of the handler
  avail,            \* providers whose SDK client is non-null (openai, anthropic, genAI)
  prompt,           \* body.prompt
  rounds,           \* body.rounds (after its default)
  active,           \* the handler's `active` array: enabled providers with a client
  moderatorEngine,  \* body.moderatorEngine (after its default)
  language,         \* body.language (after its default)
  r,                \* the round loop's counter
  task,             \* task[rho][p]: state of p's task of round rho
  buffers,          \* the round's buffers Map: provider -> text so far
  collected,        \* the transcript: sequence of [model, round, text]
  events,           \* the SSE events written, in order
  calls,            \* provider calls issued by the rounds: [model, round, prompt]
  modCalls,         \* provider calls issued by the moderator: [model, prompt]
  roundEnded,       \* rounds whose resolveRound() has run
  status,           \* HTTP status of a non-streamed answer (0: none)
  ended,            \* res.end() has been called
  stats,            \* the process's counters
  closedAt,         \* number of events written when the client went away (NotClosed: still there)
  detectedLang,     \* the language resolver's result (NoHint: not resolved)
  sessions,         \* where two requests are served together: the state of each handler call
  router,           \* the Express application: the limiter's count and the requests answered
  moderation,       \* the moderator prompt builders: their arguments and what they returned
  gemini,           \* chunksFromGemini: the stream's items, the position, `last` and the deltas yielded
  feedbackFile,     \* feedback.json and the feedback requests in flight
  feedbackRows,     \* the Feedback table and the feedback requests in flight
  store,            \* sessions, messages and usage records of the session-based API
  users             \* the users Map of the turn counter

vars == <<pc, avail, prompt, rounds, active, moderatorEngine, language, r, task, buffers,
          collected, events, calls, modCalls, roundEnded, status, ended, stats, closedAt,
          detectedLang, sessions, router, moderation, gemini, feedbackFile, feedbackRows,
          store, users>>

\* The variables of the SSE chat handler, of the two-request composition and of
\* the Express chain.
chatVars == <<pc, avail, prompt, rounds, active, moderatorEngine, language, r, task, buffers,
              collected, events, calls, modCalls, roundEnded, status, ended, stats, closedAt,
              detectedLang, sessions, router>>

\* The variables of the other endpoints and helpers.
appVars == <<moderation, gemini, feedbackFile, feedbackRows, store, users>>

\* The other endpoints and helpers are not in use.
AppAtRest ==
  /\ moderation = <<>>
  /\ gemini = <<>>
  /\ feedbackFile = <<>>
  /\ feedbackRows = <<>>
  /\ store = <<>>
  /\ users = <<>>

Rounds == MinRounds..MaxRounds

\* ----------------------------------------------------------------- helpers
Range(s) == {s[i] : i \in DOMAIN s}

RECURSIVE FilterSeq(_, _)
\* Array.prototype.filter over the providers of a set, in the order of s.
FilterSeq(s, keep) ==
  IF s = <<>> THEN <<>>
  ELSE IF Head(s) \in keep THEN <<Head(s)>> \o FilterSeq(Tail(s), keep)
  ELSE FilterSeq(Tail(s), keep)

Min(a, b) == IF a <= b THEN a ELSE b
Max(a, b) == IF a >= b THEN a ELSE b

Event(type, model, round, text) ==
  [type |-> type, model |-> model, round |-> round, text |-> text]

\* `!prompt || typeof prompt !== 'string'`
PromptMissing(p) == p.kind # "string" \/ p.words = NoWords

detectSeriousTopic(p) ==
  \E i \in DOMAIN p.words : ToLowerCase(p.words[i]) \in SeriousKeywords

\* The `active` array of the handler, in the order it is built.
ActiveList(u, av) == FilterSeq(TaskOrder, u \cap av)

\* `active.length === 0`
NoProvidersUnchecked(act) == FALSE
NoProviders(act) == act = <<>>

\* The loop bound taken from the body as it is.
LastRoundUnclamped(n) == n

\* Math.max(1, Math.min(3, rounds))
LastRound(n) == Max(MinRounds, Min(MaxRounds, n))

\* The defaults of the handler's destructuring of req.body.
DefaultLanguage == "English"
DefaultRounds == 1
DefaultUse == Providers
DefaultModeratorEngine == "Claude"

Overrides(n, u, m, lang) ==
  (IF n # DefaultRounds THEN 1 ELSE 0) + (IF u # DefaultUse THEN 1 ELSE 0)
  + (IF m # DefaultModeratorEngine THEN 1 ELSE 0)

\* ---------------------------------------------------------- prompt builders
\* The context lines without the exclusion of the current model's entries.
PrevLinesWithOwn(allRoundResponses, round, currentModel) ==
  LET Keep(e) == e.round < round
      kept == SelectSeq(allRoundResponses, Keep)
  IN  [i \in DOMAIN kept |-> [model |-> kept[i].model, text |-> kept[i].text]]

\* The context lines of a round prompt: every earlier entry of another model.
PrevLines(allRoundResponses, round, currentModel) ==
  LET Keep(e) == e.round < round /\ e.model # currentModel
      kept == SelectSeq(allRoundResponses, Keep)
  IN  [i \in DOMAIN kept |-> [model |-> kept[i].model, text |-> kept[i].text]]

\* A build with hidden state: the instruction depends on how many calls were
\* issued before.
buildRoundPromptCounting(basePrompt, round, allRoundResponses, currentModel, isSerious) ==
  [ base |-> basePrompt,
    instruction |-> [round |-> round + Len(calls), serious |-> isSerious],
    context |-> round # 1,
    lines |-> IF round = 1 THEN <<>>
              ELSE PrevLines(allRoundResponses, round, currentModel) ]

buildRoundPrompt(basePrompt, round, allRoundResponses, currentModel, isSerious) ==
  [ base |-> basePrompt,
    instruction |-> [round |-> round, serious |-> isSerious],
    context |-> round # 1,
    lines |-> IF round = 1 THEN <<>>
              ELSE PrevLines(allRoundResponses, round, currentModel) ]

\* A moderator given the responses of the last round only.
ConsiderLastRound(n) == {LastRound(n)}

\* The rounds the moderator is told to consider, from the raw body.rounds.
ConsiderRounds(n) == IF n <= 1 THEN {1} ELSE IF n = 2 THEN {1, 2} ELSE {1, 2, 3}

moderatorPrompt(lang, coll, n) ==
  LET Keep(c) == c.round \in ConsiderRounds(n)
  IN  [ scope |-> ConsiderRounds(n),
        language |-> lang,
        lines |-> SelectSeq(coll, Keep) ]

\* The system message naming English unless the language is Turkish.
SystemMessageTwoLanguages(lang, round) ==
  [ tone |-> IF round = 1 THEN 1 ELSE IF round = 2 THEN 2 ELSE 3,
    language |-> IF lang = "tr" THEN "Turkish" ELSE "English" ]

\* The system message of streamOpenAI / streamAnthropic / streamGemini.
SystemMessage(lang, round) ==
  [ tone |-> IF round = 1 THEN 1 ELSE IF round = 2 THEN 2 ELSE 3,
    language |-> lang ]

\* The choice restricted to the clients of the providers that debate.
ModeratorAdapterAmongDebaters(engine, av) ==
  LET debaters == av \cap Range(active)
  IN  IF engine \in Providers /\ engine \in debaters THEN engine
      ELSE IF "GPT" \in debaters THEN "GPT"
      ELSE NoEngine

\* Which client moderatorRun calls: the requested one when it exists, else openai.
ModeratorAdapter(engine, av) ==
  IF engine = "GPT" /\ "GPT" \in av THEN "GPT"
  ELSE IF engine = "Claude" /\ "Claude" \in av THEN "Claude"
  ELSE IF engine = "Gemini" /\ "Gemini" \in av THEN "Gemini"
  ELSE IF "GPT" \in av THEN "GPT"
  ELSE NoEngine

\* ------------------------------------------------------------------- state
ActiveSet == Range(active)
isSerious == detectSeriousTopic(prompt)

EmptyMap == [p \in {} |-> <<>>]

IsChunk(e) == e.type \in {"chunk", "moderator_chunk"}
TotalChunks == Len(SelectSeq(events, IsChunk))

IsFailure(e) == e.type = "provider_error"
TotalFailures == Len(SelectSeq(events, IsFailure))

Settled(rho, p) == task[rho][p] \in {"done", "failed"}

\* Promise.race in place of Promise.all: the first task to settle opens it.
BarrierRace(rho) == \E p \in ActiveSet : Settled(rho, p)
\* Awaiting the first task only.
BarrierFirstTask(rho) == active # <<>> /\ Settled(rho, active[1])

\* Promise.all over the round's tasks: every task has settled.
BarrierOpen(rho) == \A p \in ActiveSet : Settled(rho, p)

Init ==
  /\ pc = "idle"
  /\ avail \in SUBSET Providers
  /\ prompt = [kind |-> "undefined", words |-> NoWords]
  /\ rounds = DefaultRounds
  /\ active = <<>>
  /\ moderatorEngine = DefaultModeratorEngine
  /\ language = DefaultLanguage
  /\ r = 0
  /\ task = [rho \in Rounds |-> [p \in Providers |-> "none"]]
  /\ buffers = [rho \in Rounds |-> EmptyMap]
  /\ collected = <<>>
  /\ events = <<>>
  /\ calls = <<>>
  /\ modCalls = <<>>
  /\ roundEnded = {}
  /\ status = 0
  /\ ended = FALSE
  /\ stats = [requests |-> 0, chats |-> 0]
  /\ closedAt = NotClosed
  /\ detectedLang = NoHint
  /\ sessions = <<>>
  /\ router = [hits |-> 0, served |-> <<>>]
  /\ AppAtRest

\* sseDone: the done event, then res.end().
sseDone(evs) == Append(evs, Event("done", "-", 0, <<>>))

\* One iteration of the round loop up to its await: the round event, then for
\* each active provider, in order, its buffer, its prompt and its call.  The
\* request's fields are read in the state the step ends in (the step that
\* receives the request sets them).
StartRound(rho, evs, coll) ==
  /\ r' = rho
  /\ events' = Append(evs, Event("round", "-", rho, <<>>))
  /\ task' = [task EXCEPT ![rho] =
                [p \in Providers |-> IF p \in ActiveSet' THEN "streaming" ELSE "none"]]
  /\ buffers' = [buffers EXCEPT ![rho] = [p \in ActiveSet' |-> <<>>]]
  /\ calls' = calls \o
       [i \in DOMAIN active' |->
          [ model |-> active'[i],
            round |-> rho,
            system |-> SystemMessage(language', rho),
            prompt |-> buildRoundPrompt(prompt', rho, coll, active'[i], isSerious') ]]
  /\ pc' = "round"

\* The moderator phase up to its first await: the prompt, the adapter, the call;
\* with no adapter the generator ends at once and the handler finishes.
StartModerator(evs, coll) ==
  LET adapter == ModeratorAdapter(moderatorEngine, avail)
      tone == IF rounds <= 1 THEN 1 ELSE IF rounds = 2 THEN 2 ELSE 3
  IN  IF adapter = NoEngine
      THEN /\ events' = sseDone(Append(evs, Event("moderator_message", "-", 0, <<>>)))
           /\ stats' = [stats EXCEPT !.chats = @ + 1]
           /\ ended' = TRUE
           /\ pc' = "done"
           /\ UNCHANGED modCalls
      ELSE /\ events' = evs
           /\ modCalls' = Append(modCalls,
                [ model |-> adapter,
                  system |-> SystemMessage(language, tone),
                  prompt |-> moderatorPrompt(language, coll, rounds) ])
           /\ pc' = "moderating"
           /\ UNCHANGED <<stats, ended>>

\* POST /api/chat arrives: validation, meta, the active providers, round 1.
Request(p, n, u, m, lang) ==
  /\ pc = "idle"
  /\ Overrides(n, u, m, lang) <= MaxOverrides
  /\ prompt' = p /\ rounds' = n /\ active' = ActiveList(u, avail) /\ moderatorEngine' = m /\ language' = lang
  /\ stats' = [stats EXCEPT !.requests = @ + 1]
  /\ UNCHANGED <<avail, closedAt, detectedLang, sessions, router, appVars, collected, modCalls, roundEnded>>
  /\ IF PromptMissing(p)
     THEN /\ status' = 400
          /\ ended' = TRUE
          /\ pc' = "rejected"
          /\ UNCHANGED <<r, task, buffers, events, calls>>
     ELSE LET meta == <<Event("meta", "-", 0, <<>>)>>
          IN  IF NoProviders(ActiveList(u, avail))
              THEN /\ events' = sseDone(Append(meta, Event("error", "-", 0, <<>>)))
                   /\ ended' = TRUE
                   /\ pc' = "done"
                   /\ UNCHANGED <<r, task, buffers, calls, status>>
              ELSE /\ StartRound(1, meta, collected)
                   /\ UNCHANGED <<status, ended>>

request == <<prompt, rounds, active, moderatorEngine, language>>

\* The chunk event written ahead of the events already out.
ChunkNewestFirst(rho, p) ==
  /\ task[rho][p] = "streaming"
  /\ TotalChunks < MaxChunks
  /\ LET frag == [model |-> p, round |-> rho, k |-> Len(buffers[rho][p]) + 1]
     IN  /\ buffers' = [buffers EXCEPT ![rho][p] = Append(@, frag)]
         /\ events' = <<Event("chunk", p, rho, <<frag>>)>> \o events
  /\ UNCHANGED <<pc, avail, closedAt, detectedLang, sessions, router, appVars, request, r, task, collected, calls,
                 modCalls, roundEnded, status, ended, stats>>

\* One accumulator shared by the round's tasks: every task's delta lands in
\* every provider's text.
ChunkSharedBuffer(rho, p) ==
  /\ task[rho][p] = "streaming"
  /\ TotalChunks < MaxChunks
  /\ LET frag == [model |-> p, round |-> rho, k |-> Len(buffers[rho][p]) + 1]
     IN  /\ buffers' = [buffers EXCEPT ![rho] =
                           [q \in DOMAIN buffers[rho] |-> Append(buffers[rho][q], frag)]]
         /\ events' = Append(events, Event("chunk", p, rho, <<frag>>))
  /\ UNCHANGED <<pc, avail, closedAt, detectedLang, sessions, router, appVars, request, r, task, collected,
                 calls, modCalls, roundEnded, status, ended, stats>>

\* The buffer set to the newest delta instead of the text so far plus the delta.
ChunkOverwrite(rho, p) ==
  /\ task[rho][p] = "streaming"
  /\ TotalChunks < MaxChunks
  /\ LET frag == [model |-> p, round |-> rho, k |-> Len(buffers[rho][p]) + 1]
     IN  /\ buffers' = [buffers EXCEPT ![rho][p] = <<frag>>]
         /\ events' = Append(events, Event("chunk", p, rho, <<frag>>))
  /\ UNCHANGED <<pc, avail, closedAt, detectedLang, sessions, router, appVars, request, r, task, collected,
                 calls, modCalls, roundEnded, status, ended, stats>>

\* A provider's stream delivers its next non-empty delta to the round's loop.
Chunk(rho, p) ==
  /\ task[rho][p] = "streaming"
  /\ TotalChunks < MaxChunks
  /\ LET frag == [model |-> p, round |-> rho, k |-> Len(buffers[rho][p]) + 1]
     IN  /\ buffers' = [buffers EXCEPT ![rho][p] = Append(@, frag)]
         /\ events' = Append(events, Event("chunk", p, rho, <<frag>>))
  /\ UNCHANGED <<pc, avail, closedAt, detectedLang, sessions, router, appVars, request, r, task, collected, calls, modCalls,
                 roundEnded, status, ended, stats>>

\* The task without its try/catch: the rejection reaches Promise.all, the
\* handler's promise rejects and the handler goes no further.
TaskFailUncaught(rho, p) ==
  /\ task[rho][p] = "streaming"
  /\ TotalFailures < MaxFailures
  /\ task' = [task EXCEPT ![rho][p] = "failed"]
  /\ pc' = "crashed"
  /\ UNCHANGED <<avail, closedAt, detectedLang, sessions, router, appVars, request, r, buffers, collected, events, calls, modCalls,
                 roundEnded, status, ended, stats>>

\* The task sending its own message event as soon as its stream ends.
TaskEndMessage(rho, p) ==
  /\ task[rho][p] = "streaming"
  /\ task' = [task EXCEPT ![rho][p] = "done"]
  /\ events' = IF buffers[rho][p] # <<>>
               THEN Append(events, Event("message", p, rho, <<>>))
               ELSE events
  /\ UNCHANGED <<pc, avail, closedAt, detectedLang, sessions, router, appVars, request, r,
                 buffers, collected, calls, modCalls, roundEnded, status, ended, stats>>

\* The task pushing its own entry as soon as its stream ends.
TaskEndPush(rho, p) ==
  /\ task[rho][p] = "streaming"
  /\ task' = [task EXCEPT ![rho][p] = "done"]
  /\ collected' = IF buffers[rho][p] # <<>>
                   THEN Append(collected,
                          [model |-> p, round |-> rho, text |-> buffers[rho][p]])
                   ELSE collected
  /\ UNCHANGED <<pc, avail, closedAt, detectedLang, sessions, router, appVars, request, r, buffers, events, calls,
                 modCalls, roundEnded, status, ended, stats>>

\* A provider's stream ends: the task's for-await loop exits normally.
TaskEnd(rho, p) ==
  /\ task[rho][p] = "streaming"
  /\ task' = [task EXCEPT ![rho][p] = "done"]
  /\ UNCHANGED <<pc, avail, closedAt, detectedLang, sessions, router, appVars, request, r, buffers, collected, events, calls,
                 modCalls, roundEnded, status, ended, stats>>

\* The catch reports the failure and calls the provider once more in the
\* same round.
TaskFailRetry(rho, p) ==
  /\ task[rho][p] = "streaming"
  /\ TotalFailures < MaxFailures
  /\ events' = Append(events, Event("provider_error", p, rho, <<>>))
  /\ calls' = Append(calls,
       [ model |-> p,
         round |-> rho,
         system |-> SystemMessage(language, rho),
         prompt |-> buildRoundPrompt(prompt, rho, collected, p, isSerious) ])
  /\ UNCHANGED <<pc, avail, closedAt, detectedLang, sessions, router, appVars, request, r, task, buffers, collected,
                 modCalls, roundEnded, status, ended, stats>>

\* A provider's call or stream throws: the task's catch reports it.
TaskFail(rho, p) ==
  /\ task[rho][p] = "streaming"
  /\ TotalFailures < MaxFailures
  /\ task' = [task EXCEPT ![rho][p] = "failed"]
  /\ events' = Append(events, Event("provider_error", p, rho, <<>>))
  /\ UNCHANGED <<pc, avail, closedAt, detectedLang, sessions, router, appVars, request, r, buffers, collected, calls, modCalls,
                 roundEnded, status, ended, stats>>

\* The transcript replaced by the round's responses.
Replaced(coll, entries) == entries

\* collected.push(...) for each of the round's entries, in order.
Pushed(coll, entries) == coll \o entries

\* A buffers Map that gets a provider's key when its first fragment arrives:
\* the finalize loop then walks the providers in order of first arrival.
FinalizedByArrival(order, map, rho) ==
  LET First(e) == e.type = "chunk" /\ e.round = rho /\ e.text[1].k = 1
      arrived == SelectSeq(events, First)
  IN  [ entries |-> [k \in DOMAIN arrived |->
                      [model |-> arrived[k].model, round |-> rho, text |-> map[arrived[k].model]]],
        sent |-> [k \in DOMAIN arrived |-> Event("message", arrived[k].model, rho, <<>>)] ]

RECURSIVE FinalizedUnlessFailed(_, _, _)
\* A finalize loop that passes over the providers whose task threw.
FinalizedUnlessFailed(order, map, rho) ==
  IF order = <<>> THEN [entries |-> <<>>, sent |-> <<>>]
  ELSE LET model == Head(order)
           rest == FinalizedUnlessFailed(Tail(order), map, rho)
       IN  IF map[model] # <<>> /\ task[rho][model] # "failed"
           THEN [ entries |-> <<[model |-> model, round |-> rho, text |-> map[model]]>>
                                \o rest.entries,
                  sent |-> <<Event("message", model, rho, <<>>)>> \o rest.sent ]
           ELSE rest

RECURSIVE Finalized(_, _, _)
\* The loop over buffers.entries() after the barrier: for each provider with a
\* non-empty buffer, in Map order, what is pushed and what is sent.
Finalized(order, map, rho) ==
  IF order = <<>> THEN [entries |-> <<>>, sent |-> <<>>]
  ELSE LET model == Head(order)
           rest == Finalized(Tail(order), map, rho)
       IN  IF map[model] # <<>>
           THEN [ entries |-> <<[model |-> model, round |-> rho, text |-> map[model]]>>
                                \o rest.entries,
                  sent |-> <<Event("message", model, rho, <<>>)>> \o rest.sent ]
           ELSE rest

\* The barrier opens: finalize the round, resolveRound(), then the next
\* iteration of the loop or, after the last round, the moderator.
FinalizeRound ==
  /\ pc = "round"
  /\ BarrierOpen(r)
  /\ UNCHANGED <<avail, closedAt, detectedLang, sessions, router, appVars, request, status>>
  /\ LET fin == Finalized(active, buffers[r], r)
         coll == Pushed(collected, fin.entries)
         evs == events \o fin.sent
     IN  /\ collected' = coll
         /\ roundEnded' = roundEnded \cup {r}
         /\ IF r < LastRound(rounds)
            THEN /\ StartRound(r + 1, evs, coll)
                 /\ UNCHANGED <<modCalls, stats, ended>>
            ELSE /\ StartModerator(evs, coll)
                 /\ UNCHANGED <<r, task, buffers, calls>>

\* The moderator's stream delivers its next non-empty delta.
ModChunk ==
  /\ pc = "moderating"
  /\ TotalChunks < MaxChunks
  /\ LET IsMod(e) == e.type = "moderator_chunk"
         frag == [model |-> modCalls[Len(modCalls)].model, round |-> 0,
                  k |-> Len(SelectSeq(events, IsMod)) + 1]
     IN  events' = Append(events, Event("moderator_chunk", "-", 0, <<frag>>))
  /\ UNCHANGED <<pc, avail, closedAt, detectedLang, sessions, router, appVars, request, r, task, buffers, collected, calls, modCalls,
                 roundEnded, status, ended, stats>>

\* The moderator's stream ends: moderator_message, the counter, sseDone.
ModEnd ==
  /\ pc = "moderating"
  /\ events' = sseDone(Append(events, Event("moderator_message", "-", 0, <<>>)))
  /\ stats' = [stats EXCEPT !.chats = @ + 1]
  /\ ended' = TRUE
  /\ pc' = "done"
  /\ UNCHANGED <<avail, closedAt, detectedLang, sessions, router, appVars, request, r, task, buffers, collected, calls, modCalls,
                 roundEnded, status>>

\* The moderator's call or stream throws: nothing catches it, the handler's
\* promise rejects and the handler writes nothing more.
ModFail ==
  /\ pc = "moderating"
  /\ pc' = "crashed"
  /\ UNCHANGED <<avail, closedAt, detectedLang, sessions, router, appVars, request, r, task, buffers, collected, events, calls,
                 modCalls, roundEnded, status, ended, stats>>

Next ==
  \/ /\ pc = "idle"
     /\ \E p \in PromptInputs, n \in 0..MaxReqRounds, u \in SUBSET Providers,
           m \in Engines, lang \in Languages : Request(p, n, u, m, lang)
  \/ \E rho \in Rounds, p \in Providers : Chunk(rho, p)
  \/ \E rho \in Rounds, p \in Providers : TaskEnd(rho, p)
  \/ \E rho \in Rounds, p \in Providers : TaskFail(rho, p)
  \/ FinalizeRound
  \/ ModChunk
  \/ ModEnd
  \/ ModFail

Spec == Init /\ [][Next]_vars

\* Every stream is finite and the event loop runs every callback that is
\* ready: the handler keeps taking steps while one is possible.
Fairness == WF_vars(Next)

SpecFair == Init /\ [][Next]_vars /\ Fairness

\* The client goes away while the handler is streaming: the socket closes.
\* The handler registers no 'close' listener, so nothing else changes.
Disconnect ==
  /\ pc \in {"round", "moderating"}
  /\ closedAt = NotClosed
  /\ closedAt' = Len(events)
  /\ UNCHANGED <<pc, avail, detectedLang, sessions, router, appVars, request, r, task, buffers, collected, events,
                 calls, modCalls, roundEnded, status, ended, stats>>

NextDisconnect == Next \/ Disconnect

\* The handler with a client that may go away.
SpecDisconnect == Init /\ [][NextDisconnect]_vars

\* -------------------------------------------------------- language resolver
\* Words of the longest texts.
MaxWords == 2

\* The words the texts are made of, and the marker words, letter by letter.
\* FA and YA stand for the two letters of an Arabic marker word.
Spell(w) ==
  CASE w = "the" -> <<"t", "h", "e">>
    [] w = "The" -> <<"T", "h", "e">>
    [] w = "he" -> <<"h", "e">>
    [] w = "and" -> <<"a", "n", "d">>
    [] w = "bir" -> <<"b", "i", "r">>
    [] w = "ve" -> <<"v", "e">>
    [] w = "de" -> <<"d", "e">>
    [] w = "der" -> <<"d", "e", "r">>
    [] w = "und" -> <<"u", "n", "d">>
    [] w = "el" -> <<"e", "l">>
    [] w = "la" -> <<"l", "a">>
    [] w = "le" -> <<"l", "e">>
    [] w = "et" -> <<"e", "t">>
    [] w = "hola" -> <<"h", "o", "l", "a">>
    [] w = "ok" -> <<"o", "k">>
    [] w = "a" -> <<"a">>
    [] w = "fi" -> <<"FA", "YA">>

Vocabulary == {"the", "The", "and", "bir", "ve", "der", "hola", "ok"}

\* The question: its words, to be joined by single spaces.
Texts == UNION {[1..n -> Vocabulary] : n \in 0..MaxWords}

RECURSIVE Chars(_)
Chars(words) ==
  IF words = <<>> THEN <<>>
  ELSE IF Len(words) = 1 THEN Spell(words[1])
  ELSE Spell(words[1]) \o <<" ">> \o Chars(Tail(words))

\* String.prototype.toLowerCase, letter by letter.
LowerChars(cs) == [i \in DOMAIN cs |-> IF cs[i] = "T" THEN "t" ELSE cs[i]]

\* String.prototype.includes
Includes(cs, w) ==
  \E i \in 0..(Len(cs) - Len(w)) : SubSeq(cs, i + 1, i + Len(w)) = w

\* Object.keys(scores), in insertion order.
LangCodes == <<"tr", "en", "es", "fr", "de", "ar">>

\* Marker words of each list: every one that occurs in a text over the
\* vocabulary, and some that do not.
MarkerWords(code) ==
  CASE code = "tr" -> {"ve", "bir", "de"}
    [] code = "en" -> {"the", "and", "he", "a"}
    [] code = "es" -> {"el", "la", "de", "a"}
    [] code = "fr" -> {"le", "et", "de"}
    [] code = "de" -> {"der", "und"}
    [] code = "ar" -> {"fi"}

\* One entry of scores: how many marker words of the list the text includes
\* (the Arabic list is matched against the text as given, the others against
\* its lower-case form).
Score(code, words) ==
  LET text == Chars(words)
      t == IF code = "ar" THEN text ELSE LowerChars(text)
  IN  Cardinality({w \in MarkerWords(code) : Includes(t, Spell(w))})

RECURSIVE Reduce(_, _, _)
\* Array.prototype.reduce with (a, b) => scores[a] > scores[b] ? a : b
Reduce(a, rest, words) ==
  IF rest = <<>> THEN a
  ELSE LET b == Head(rest)
       IN  Reduce(IF Score(a, words) > Score(b, words) THEN a ELSE b, Tail(rest), words)

detectLanguage(words) == Reduce(Head(LangCodes), Tail(LangCodes), words)

Hints == {NoHint, "fr"}

\* A question arrives at a handler that resolves the language itself.
InitLanguage ==
  /\ pc = "resolving"
  /\ avail = {}
  /\ prompt \in {[kind |-> "string", words |-> t] : t \in Texts}
  /\ language \in Hints
  /\ rounds = DefaultRounds
  /\ active = <<>>
  /\ moderatorEngine = DefaultModeratorEngine
  /\ r = 0
  /\ task = [rho \in Rounds |-> [p \in Providers |-> "none"]]
  /\ buffers = [rho \in Rounds |-> EmptyMap]
  /\ collected = <<>>
  /\ events = <<>>
  /\ calls = <<>>
  /\ modCalls = <<>>
  /\ roundEnded = {}
  /\ status = 0
  /\ ended = FALSE
  /\ stats = [requests |-> 0, chats |-> 0]
  /\ closedAt = NotClosed
  /\ detectedLang = NoHint
  /\ sessions = <<>>
  /\ router = [hits |-> 0, served |-> <<>>]
  /\ AppAtRest

\* The question is validated, then `language || detectLanguage(question)`.
ResolveLanguage ==
  /\ pc = "resolving"
  /\ IF PromptMissing(prompt)
     THEN /\ status' = 400
          /\ ended' = TRUE
          /\ pc' = "rejected"
          /\ UNCHANGED detectedLang
     ELSE /\ detectedLang' = IF language # NoHint THEN language
                             ELSE detectLanguage(prompt.words)
          /\ pc' = "resolved"
          /\ UNCHANGED <<status, ended>>
  /\ UNCHANGED <<avail, closedAt, sessions, router, appVars, request, r, task, buffers, collected, events,
                 calls, modCalls, roundEnded, stats>>

NextLanguage == ResolveLanguage

SpecLanguage == InitLanguage /\ [][NextLanguage]_vars

\* ------------------------------------------------ two requests, one process
\* Two requests handled by the same process, each by its own call of the
\* handler; every request enables GPT and Claude and asks for two rounds.  A
\* fragment carries the request its provider call belongs to.
Requests == {1, 2}
Panel == <<"GPT", "Claude">>
PanelSet == Range(Panel)
SessionRounds == 2
SessionPrompt == [kind |-> "string", words |-> <<"what", "is", "AI">>]

\* Fragments delivered by the provider streams of one request.
MaxSessionChunks == 1
\* Provider calls of one request that throw.
MaxSessionFailures == 1

\* No moderator prompt built yet.
NoModPrompt == [scope |-> {}, language |-> NoHint, lines |-> <<>>]

IdleSession(flag) ==
  [ pc |-> "idle", serious |-> flag, r |-> 0,
    task |-> [p \in PanelSet |-> "none"],
    buffers |-> [p \in PanelSet |-> <<>>],
    collected |-> <<>>, calls |-> <<>>, modPrompt |-> NoModPrompt,
    kinds |-> <<>>, trace |-> <<>> ]

\* The handler's `collected` array as request i's handler sees it.
SharedTranscript(i) == sessions[1].collected \o sessions[2].collected
Transcript(i) == sessions[i].collected

SessionChunks(s) == LET Is(t) == t[1] = "chunk" IN Len(SelectSeq(s.trace, Is))
SessionFailures(s) == LET Is(t) == t[1] = "fail" IN Len(SelectSeq(s.trace, Is))

\* Request i's handler starts round rho with transcript coll: the round
\* event, then a prompt and a call for each provider.
SessionStartRound(s, rho, coll) ==
  [ s EXCEPT
      !.pc = "round",
      !.r = rho,
      !.task = [p \in PanelSet |-> "streaming"],
      !.buffers = [p \in PanelSet |-> <<>>],
      !.collected = coll,
      !.kinds = Append(@, "round"),
      !.calls = @ \o [k \in DOMAIN Panel |->
                  [ model |-> Panel[k],
                    round |-> rho,
                    prompt |-> buildRoundPrompt(SessionPrompt, rho, coll, Panel[k],
                                                s.serious) ]] ]

\* The last task of the round has settled: finalize, then the next round or
\* the moderator prompt and call.
SessionAfterBarrier(s, coll) ==
  LET fin == Finalized(Panel, s.buffers, s.r)
      all == Pushed(coll, fin.entries)
      t == [s EXCEPT !.kinds = @ \o [k \in DOMAIN fin.sent |-> fin.sent[k].type]]
  IN  IF s.r < LastRound(SessionRounds)
      THEN SessionStartRound(t, s.r + 1, all)
      ELSE [ t EXCEPT !.pc = "moderating",
                      !.collected = all,
                      !.modPrompt = moderatorPrompt(DefaultLanguage, all, SessionRounds) ]

SessionSettle(s, coll) ==
  IF \A p \in PanelSet : s.task[p] \in {"done", "failed"}
  THEN SessionAfterBarrier(s, coll)
  ELSE s

\* A handler that refuses a prompt the classifier flags.
AcceptUnlessSerious(i) ==
  /\ sessions[i].pc = "idle"
  /\ sessions' = [sessions EXCEPT ![i] =
       IF sessions[i].serious
       THEN [ sessions[i] EXCEPT !.pc = "done", !.kinds = <<"error", "done">>,
                                 !.trace = <<<<"accept", "-">>>> ]
       ELSE SessionStartRound(
              [ sessions[i] EXCEPT !.kinds = <<"meta">>, !.trace = <<<<"accept", "-">>>> ],
              1, Transcript(i))]

\* POST /api/chat of request i arrives.
Accept(i) ==
  /\ sessions[i].pc = "idle"
  /\ sessions' = [sessions EXCEPT ![i] =
       SessionStartRound(
         [ sessions[i] EXCEPT !.kinds = <<"meta">>, !.trace = <<<<"accept", "-">>>> ],
         1, Transcript(i))]

\* A provider stream of request i delivers a fragment.
SessionChunk(i, p) ==
  LET s == sessions[i]
      frag == [model |-> p, round |-> s.r, k |-> Len(s.buffers[p]) + 1, req |-> i]
  IN  /\ s.pc = "round" /\ s.task[p] = "streaming"
      /\ SessionChunks(s) < MaxSessionChunks
      /\ sessions' = [sessions EXCEPT ![i] =
           [ s EXCEPT !.buffers[p] = Append(@, frag),
                      !.kinds = Append(@, "chunk"),
                      !.trace = Append(@, <<"chunk", p>>) ]]

\* A provider stream of request i ends.
SessionTaskEnd(i, p) ==
  LET s == sessions[i]
  IN  /\ s.pc = "round" /\ s.task[p] = "streaming"
      /\ sessions' = [sessions EXCEPT ![i] =
           SessionSettle([ s EXCEPT !.task[p] = "done",
                                    !.trace = Append(@, <<"end", p>>) ],
                         Transcript(i))]

\* A provider call or stream of request i throws.
SessionTaskFail(i, p) ==
  LET s == sessions[i]
  IN  /\ s.pc = "round" /\ s.task[p] = "streaming"
      /\ SessionFailures(s) < MaxSessionFailures
      /\ sessions' = [sessions EXCEPT ![i] =
           SessionSettle([ s EXCEPT !.task[p] = "failed",
                                    !.kinds = Append(@, "provider_error"),
                                    !.trace = Append(@, <<"fail", p>>) ],
                         Transcript(i))]

\* The moderator stream of request i ends.
SessionModEnd(i) ==
  LET s == sessions[i]
  IN  /\ s.pc = "moderating"
      /\ sessions' = [sessions EXCEPT ![i] =
           [ s EXCEPT !.pc = "done",
                      !.kinds = @ \o <<"moderator_message", "done">>,
                      !.trace = Append(@, <<"modend", "-">>) ]]

InitSessions ==
  /\ pc = "serving"
  /\ avail = PanelSet
  /\ prompt = SessionPrompt
  /\ rounds = SessionRounds
  /\ active = Panel
  /\ moderatorEngine = DefaultModeratorEngine
  /\ language = DefaultLanguage
  /\ r = 0
  /\ task = [rho \in Rounds |-> [p \in Providers |-> "none"]]
  /\ buffers = [rho \in Rounds |-> EmptyMap]
  /\ collected = <<>>
  /\ events = <<>>
  /\ calls = <<>>
  /\ modCalls = <<>>
  /\ roundEnded = {}
  /\ status = 0
  /\ ended = FALSE
  /\ stats = [requests |-> 0, chats |-> 0]
  /\ closedAt = NotClosed
  /\ detectedLang = NoHint
  /\ router = [hits |-> 0, served |-> <<>>]
  /\ AppAtRest
  /\ sessions \in {[i \in Requests |-> IdleSession(f[i])] : f \in [Requests -> BOOLEAN]}

NextSessions ==
  /\ UNCHANGED <<pc, avail, closedAt, detectedLang, router, appVars, request, r, task, buffers,
                 collected, events, calls, modCalls, roundEnded, status, ended, stats>>
  /\ \/ \E i \in Requests : Accept(i)
     \/ \E i \in Requests, p \in PanelSet : SessionChunk(i, p)
     \/ \E i \in Requests, p \in PanelSet : SessionTaskEnd(i, p)
     \/ \E i \in Requests, p \in PanelSet : SessionTaskFail(i, p)
     \/ \E i \in Requests : SessionModEnd(i)

SpecSessions == InitSessions /\ [][NextSessions]_vars

\* ------------------------------------------------- the Express application
\* src/src/server.ts: the middleware chain every request walks, in the order
\* of registration.  Paths under the mounted routers (/api/auth, /api/sessions,
\* /api/chat, /api/feedback, /api/usage) are left out.
Methods == {"GET", "POST", "OPTIONS"}
Paths == {"/health", "/api", "/api/protected", "/api/nope", "/unknown-route"}
Bodies == {"none", "malformed"}

\* Requests served in one run.
MaxServed == 3
\* The limiter's `max` (RATE_LIMIT_MAX_REQUESTS, 100 by default), scaled down.
RateLimitMax == 2

\* app.get('/health'), app.get('/api/protected'), app.get('/api').
Registered(method, path) ==
  method = "GET" /\ path \in {"/health", "/api", "/api/protected"}

UnderApi(path) == path \in {"/api", "/api/protected", "/api/nope"}

\* notFoundHandler: res.status(404).json({error: {message, code: 'NOT_FOUND'}}).
notFoundHandler(path) ==
  [status |-> 404, error |-> TRUE, message |-> <<"Route", path, "not found">>, code |-> "NOT_FOUND"]

\* The answer to a request, given the limiter's count after this request.
Answer(method, path, body, hits) ==
  IF method = "OPTIONS"
  THEN \* cors() ends a preflight itself, with optionsSuccessStatus
       [status |-> 200, error |-> FALSE, message |-> <<>>, code |-> "-"]
  ELSE IF UnderApi(path) /\ hits > RateLimitMax
  THEN [ status |-> 429, error |-> TRUE,
         message |-> <<"Too many requests from this IP, please try again later.">>,
         code |-> "RATE_LIMIT_EXCEEDED" ]
  ELSE IF method = "POST" /\ body = "malformed"
  THEN \* express.json() passes a parse error with status 400 to errorHandler
       [status |-> 400, error |-> TRUE, message |-> <<"parse error">>, code |-> "undefined"]
  ELSE IF Registered(method, path)
  THEN [status |-> 200, error |-> FALSE, message |-> <<>>, code |-> "-"]
  ELSE notFoundHandler(path)

InitRouter ==
  /\ pc = "listening"
  /\ avail = {}
  /\ prompt = [kind |-> "undefined", words |-> NoWords]
  /\ rounds = DefaultRounds
  /\ active = <<>>
  /\ moderatorEngine = DefaultModeratorEngine
  /\ language = DefaultLanguage
  /\ r = 0
  /\ task = [rho \in Rounds |-> [p \in Providers |-> "none"]]
  /\ buffers = [rho \in Rounds |-> EmptyMap]
  /\ collected = <<>>
  /\ events = <<>>
  /\ calls = <<>>
  /\ modCalls = <<>>
  /\ roundEnded = {}
  /\ status = 0
  /\ ended = FALSE
  /\ stats = [requests |-> 0, chats |-> 0]
  /\ closedAt = NotClosed
  /\ detectedLang = NoHint
  /\ sessions = <<>>
  /\ router = [hits |-> 0, served |-> <<>>]
  /\ AppAtRest

\* One client sends a request; the chain answers it.
Serve(method, path, body) ==
  /\ pc = "listening"
  /\ Len(router.served) < MaxServed
  /\ body = "malformed" => method = "POST"
  /\ LET counted == method # "OPTIONS" /\ UnderApi(path)
         hits == IF counted THEN router.hits + 1 ELSE router.hits
     IN  router' = [ hits |-> hits,
                     served |-> Append(router.served,
                       [ method |-> method, path |-> path, body |-> body,
                         answer |-> Answer(method, path, body, hits) ]) ]
  /\ UNCHANGED <<pc, avail, closedAt, detectedLang, sessions, appVars, request, r, task, buffers,
                 collected, events, calls, modCalls, roundEnded, status, ended, stats>>

\* The limiter's window (windowMs) runs out.
WindowReset ==
  /\ pc = "listening"
  /\ router.hits > 0
  /\ router' = [router EXCEPT !.hits = 0]
  /\ UNCHANGED <<pc, avail, closedAt, detectedLang, sessions, appVars, request, r, task, buffers,
                 collected, events, calls, modCalls, roundEnded, status, ended, stats>>

NextRouter ==
  \/ \E method \in Methods, path \in Paths, body \in Bodies : Serve(method, path, body)
  \/ WindowReset

SpecRouter == InitRouter /\ [][NextRouter]_vars

\* ------------------------------------------ the moderator prompt builders
\* The builders that take a moderator style: moderatorPrompt of
\* src/unnamed/part_002 and of src/unnamed/part_004, getSystemPromptForModerator
\* of src/unnamed/part_004 and getModeratorPrompt of src/server.js.  A prompt is
\* kept as the parts it is put together from.
KnownStyles == {"neutral", "analytical", "educational", "creative", "quick-summary"}

\* Names every JavaScript object inherits from Object.prototype.
ObjectPrototypeKeys == {"constructor"}

\* body.moderatorStyle: the five names, a name in no table, an inherited name.
Styles == KnownStyles \cup {"formal"} \cup ObjectPrototypeKeys

Undefined == "undefined"
\* What `${value}` gives for Object.prototype.constructor.
InheritedText == "function Object() { [native code] }"
\* The builder threw instead of returning.
Thrown == [threw |-> "ReferenceError: Cannot access 'basePrompt' before initialization"]

\* The styleGuidance table: the sentence stored under each of its own keys.
Sentence(style) ==
  CASE style = "neutral" -> "Balanced and concise final answer."
    [] style = "analytical" -> "Compare and contrast key points analytically."
    [] style = "educational" -> "Explain clearly with simple examples if useful."
    [] style = "creative" -> "Provide an engaging, creative synthesis."
    [] style = "quick-summary" -> "Provide a terse executive summary."

\* `{...}[key]` on an object literal with the five keys: the own property, an
\* inherited property, or undefined.
Lookup(key) ==
  IF key \in KnownStyles THEN Sentence(key)
  ELSE IF key \in ObjectPrototypeKeys THEN InheritedText
  ELSE Undefined

\* `{...}[style] || 'Balanced and concise final answer.'`
StyleGuidance(style) ==
  IF Lookup(style) = Undefined THEN Sentence("neutral") ELSE Lookup(style)

\* moderatorPrompt(style, language, collected) of part_002.
moderatorPromptOfStyle(style, lang, coll) ==
  [ guidance |-> StyleGuidance(style), language |-> lang, intro |-> FALSE, lines |-> coll ]

\* moderatorPrompt(style, language, collected, rounds) of part_004.
moderatorPromptOfStyleAndRounds(style, lang, coll, n) ==
  LET actualStyle == IF n >= 3 THEN "analytical" ELSE style
  IN  [ guidance |-> StyleGuidance(actualStyle), language |-> lang, intro |-> n >= 3,
        lines |-> coll ]

\* getSystemPromptForModerator of part_004: `const basePrompt = {...}[style] ||
\* basePrompt.neutral` reads basePrompt inside its own initializer.
getSystemPromptForModerator(style, lang, n, coll) ==
  IF Lookup(style) = Undefined THEN Thrown
  ELSE [ guidance |-> Lookup(style), language |-> lang, intro |-> n > 1, lines |-> coll ]

\* getModeratorPrompt of server.js:
\* `langPrompts[language]?.[style] || langPrompts.en[style] || langPrompts.en.neutral`.
getModeratorPrompt(style, lang, coll) ==
  LET table == IF lang \in {"en", "tr"} THEN lang ELSE "en"
  IN  [ guidance |-> StyleGuidance(style), language |-> table, intro |-> FALSE, lines |-> coll ]

Builders == {"part_002", "part_004", "getSystemPromptForModerator", "getModeratorPrompt"}
NotBuilt == [threw |-> "-"]

\* Transcripts handed to a builder.
StyleTranscripts ==
  { <<>>,
    <<[model |-> "GPT", round |-> 1, text |-> "a"]>>,
    <<[model |-> "GPT", round |-> 1, text |-> "a"], [model |-> "Claude", round |-> 2, text |-> "b"]>> }

StyleLanguages == {"en", "tr"}

InitStyle ==
  /\ pc = "building"
  /\ avail = {}
  /\ prompt = [kind |-> "undefined", words |-> NoWords]
  /\ rounds = DefaultRounds
  /\ active = <<>>
  /\ moderatorEngine = DefaultModeratorEngine
  /\ language = DefaultLanguage
  /\ r = 0
  /\ task = [rho \in Rounds |-> [p \in Providers |-> "none"]]
  /\ buffers = [rho \in Rounds |-> EmptyMap]
  /\ collected = <<>>
  /\ events = <<>>
  /\ calls = <<>>
  /\ modCalls = <<>>
  /\ roundEnded = {}
  /\ status = 0
  /\ ended = FALSE
  /\ stats = [requests |-> 0, chats |-> 0]
  /\ closedAt = NotClosed
  /\ detectedLang = NoHint
  /\ sessions = <<>>
  /\ router = [hits |-> 0, served |-> <<>>]
  /\ gemini = <<>> /\ feedbackFile = <<>> /\ feedbackRows = <<>> /\ store = <<>> /\ users = <<>>
  /\ moderation \in { [ style |-> s, rounds |-> n, language |-> l, transcript |-> t,
                        out |-> [b \in Builders |-> NotBuilt] ] :
                      s \in Styles, n \in 0..MaxReqRounds, l \in StyleLanguages,
                      t \in StyleTranscripts }

\* One of the builders is called with the request's arguments.
Build(b) ==
  /\ moderation.out[b] = NotBuilt
  /\ LET a == moderation
         result ==
           CASE b = "part_002" -> moderatorPromptOfStyle(a.style, a.language, a.transcript)
             [] b = "part_004" ->
                  moderatorPromptOfStyleAndRounds(a.style, a.language, a.transcript, a.rounds)
             [] b = "getSystemPromptForModerator" ->
                  getSystemPromptForModerator(a.style, a.language, a.rounds, a.transcript)
             [] b = "getModeratorPrompt" -> getModeratorPrompt(a.style, a.language, a.transcript)
     IN  moderation' = [moderation EXCEPT !.out[b] = result]
  /\ UNCHANGED <<chatVars, gemini, feedbackFile, feedbackRows, store, users>>

NextStyle == \E b \in Builders : Build(b)

SpecStyle == InitStyle /\ [][NextStyle]_vars

\* --------------------------------------------------------- chunksFromGemini
\* The generator of src/unnamed/part_003 that turns the items of a Gemini
\* stream into deltas.  A text is a sequence of characters.
GeminiAlphabet == {"a", "b"}

\* Characters in one item.
MaxItemLen == 3
\* Items in one stream.
MaxStreamItems == 3

\* The non-empty texts an item can carry.
ItemTexts == UNION {[1..n -> GeminiAlphabet] : n \in 1..MaxItemLen}

\* String.prototype.startsWith
StartsWith(t, s) == Len(s) <= Len(t) /\ SubSeq(t, 1, Len(s)) = s

\* String.prototype.slice(n)
Slice(t, n) == SubSeq(t, n + 1, Len(t))

RECURSIVE Joined(_)
\* The concatenation of a sequence of texts.
Joined(ts) == IF ts = <<>> THEN <<>> ELSE Head(ts) \o Joined(Tail(ts))

\* Each item is the whole text so far: it starts with the item before it.
Cumulative(items) ==
  \A k \in DOMAIN items : k > 1 => StartsWith(items[k], items[k - 1])

\* The streams: every sequence of items is a stream of independent deltas; the
\* cumulative ones are also streams of snapshots.
GeminiStreams ==
  LET all == UNION {[1..n -> ItemTexts] : n \in 0..MaxStreamItems}
  IN  {[mode |-> "deltas", items |-> s] : s \in all}
        \cup {[mode |-> "snapshots", items |-> s] : s \in {x \in all : Cumulative(x)}}

InitGemini ==
  /\ pc = "streaming"
  /\ avail = {}
  /\ prompt = [kind |-> "undefined", words |-> NoWords]
  /\ rounds = DefaultRounds
  /\ active = <<>>
  /\ moderatorEngine = DefaultModeratorEngine
  /\ language = DefaultLanguage
  /\ r = 0
  /\ task = [rho \in Rounds |-> [p \in Providers |-> "none"]]
  /\ buffers = [rho \in Rounds |-> EmptyMap]
  /\ collected = <<>>
  /\ events = <<>>
  /\ calls = <<>>
  /\ modCalls = <<>>
  /\ roundEnded = {}
  /\ status = 0
  /\ ended = FALSE
  /\ stats = [requests |-> 0, chats |-> 0]
  /\ closedAt = NotClosed
  /\ detectedLang = NoHint
  /\ sessions = <<>>
  /\ router = [hits |-> 0, served |-> <<>>]
  /\ moderation = <<>> /\ feedbackFile = <<>> /\ feedbackRows = <<>> /\ store = <<>>
  /\ users = <<>>
  /\ gemini \in { [ mode |-> g.mode, items |-> g.items, pos |-> 0, soFar |-> <<>>,
                    yielded |-> <<>> ] : g \in GeminiStreams }

\* One turn of the for-await loop: the next item of the stream.
chunksFromGemini ==
  /\ gemini.pos < Len(gemini.items)
  /\ LET t == gemini.items[gemini.pos + 1]
         delta == IF StartsWith(t, gemini.soFar) THEN Slice(t, Len(gemini.soFar)) ELSE t
     IN  gemini' = [ gemini EXCEPT
                       !.pos = @ + 1,
                       !.soFar = t,
                       !.yielded = IF delta # <<>> THEN Append(@, delta) ELSE @ ]
  /\ UNCHANGED <<chatVars, moderation, feedbackFile, feedbackRows, store, users>>

NextGemini == chunksFromGemini

SpecGemini == InitGemini /\ [][NextGemini]_vars

\* ------------------------------------------------- POST /api/feedback (file)
\* src/server.js: the feedback endpoint that keeps feedback.json.  Each request
\* is a call of the async handler; its awaits (readFile, writeFile) are the
\* points where another request's steps can run.  A feedback is named by the
\* request that sent it.
FeedbackRequests == {1, 2, 3}

NoFeedbackRequest == [pc |-> "none", message |-> FALSE, existingFeedback |-> <<>>, answer |-> "-"]

InitFeedbackFile ==
  /\ pc = "listening"
  /\ avail = {}
  /\ prompt = [kind |-> "undefined", words |-> NoWords]
  /\ rounds = DefaultRounds
  /\ active = <<>>
  /\ moderatorEngine = DefaultModeratorEngine
  /\ language = DefaultLanguage
  /\ r = 0
  /\ task = [rho \in Rounds |-> [p \in Providers |-> "none"]]
  /\ buffers = [rho \in Rounds |-> EmptyMap]
  /\ collected = <<>>
  /\ events = <<>>
  /\ calls = <<>>
  /\ modCalls = <<>>
  /\ roundEnded = {}
  /\ status = 0
  /\ ended = FALSE
  /\ stats = [requests |-> 0, chats |-> 0]
  /\ closedAt = NotClosed
  /\ detectedLang = NoHint
  /\ sessions = <<>>
  /\ router = [hits |-> 0, served |-> <<>>]
  /\ moderation = <<>> /\ gemini = <<>> /\ feedbackRows = <<>> /\ store = <<>> /\ users = <<>>
  /\ feedbackFile = [file |-> <<>>, req |-> [i \in FeedbackRequests |-> NoFeedbackRequest]]

\* The request arrives: validation, the feedback object, then readFile is
\* started (a missing file is an empty list once the read returns).
FeedbackPost(i, hasMessage) ==
  /\ feedbackFile.req[i].pc = "none"
  /\ feedbackFile' = [feedbackFile EXCEPT !.req[i] =
       IF hasMessage
       THEN [@ EXCEPT !.pc = "reading", !.message = TRUE]
       ELSE [@ EXCEPT !.pc = "answered", !.answer = "400"]]
  /\ UNCHANGED <<chatVars, moderation, gemini, feedbackRows, store, users>>

\* readFile returns: JSON.parse, push, then writeFile is started.
FeedbackRead(i) ==
  /\ feedbackFile.req[i].pc = "reading"
  /\ feedbackFile' = [feedbackFile EXCEPT !.req[i] =
       [@ EXCEPT !.pc = "writing", !.existingFeedback = Append(feedbackFile.file, i)]]
  /\ UNCHANGED <<chatVars, moderation, gemini, feedbackRows, store, users>>

\* writeFile replaces the file's content; then res.json({ success: true, id }).
FeedbackWrite(i) ==
  /\ feedbackFile.req[i].pc = "writing"
  /\ feedbackFile' = [feedbackFile EXCEPT
       !.file = feedbackFile.req[i].existingFeedback,
       !.req[i] = [@ EXCEPT !.pc = "answered", !.answer = "success"]]
  /\ UNCHANGED <<chatVars, moderation, gemini, feedbackRows, store, users>>

\* writeFile rejects: the catch answers 500.
FeedbackWriteFails(i) ==
  /\ feedbackFile.req[i].pc = "writing"
  /\ feedbackFile' = [feedbackFile EXCEPT
       !.req[i] = [@ EXCEPT !.pc = "answered", !.answer = "500"]]
  /\ UNCHANGED <<chatVars, moderation, gemini, feedbackRows, store, users>>

NextFeedbackFile ==
  \E i \in FeedbackRequests :
    \/ \E hasMessage \in BOOLEAN : FeedbackPost(i, hasMessage)
    \/ FeedbackRead(i)
    \/ FeedbackWrite(i)
    \/ FeedbackWriteFails(i)

SpecFeedbackFile == InitFeedbackFile /\ [][NextFeedbackFile]_vars

\* ---------------------------------------------- POST /api/feedback (table)
\* src/unnamed/part_010: feedback kept in the Feedback table, one submission
\* per request; the handler's awaits (the two findOne queries, update or
\* create) are the points where another request's steps can run.
Submissions == {1, 2, 3}
FeedbackUsers == {"u1", "u2"}
FeedbackMessages == {"m1"}
Ratings == {1, 5}
NoRow == 0

NoSubmission ==
  [pc |-> "none", messageId |-> "-", userId |-> "-", rating |-> 0, existingFeedback |-> NoRow,
   answer |-> 0]

InitFeedbackRows ==
  /\ pc = "listening"
  /\ avail = {}
  /\ prompt = [kind |-> "undefined", words |-> NoWords]
  /\ rounds = DefaultRounds
  /\ active = <<>>
  /\ moderatorEngine = DefaultModeratorEngine
  /\ language = DefaultLanguage
  /\ r = 0
  /\ task = [rho \in Rounds |-> [p \in Providers |-> "none"]]
  /\ buffers = [rho \in Rounds |-> EmptyMap]
  /\ collected = <<>>
  /\ events = <<>>
  /\ calls = <<>>
  /\ modCalls = <<>>
  /\ roundEnded = {}
  /\ status = 0
  /\ ended = FALSE
  /\ stats = [requests |-> 0, chats |-> 0]
  /\ closedAt = NotClosed
  /\ detectedLang = NoHint
  /\ sessions = <<>>
  /\ router = [hits |-> 0, served |-> <<>>]
  /\ moderation = <<>> /\ gemini = <<>> /\ feedbackFile = <<>> /\ store = <<>> /\ users = <<>>
  /\ feedbackRows = [rows |-> {}, req |-> [i \in Submissions |-> NoSubmission]]

\* What the checks ahead of the upsert find: the fields valid and the message
\* in a session of the user, the fields invalid, or no such message.
FeedbackChecks == {"ok", "invalid", "no message"}

\* The request arrives: validationResult, Message.findOne, and for a message
\* of the user Feedback.findOne({ where: { messageId, userId } }) is started.
FeedbackSubmit(i, userId, messageId, rating, check) ==
  /\ feedbackRows.req[i].pc = "none"
  /\ feedbackRows' = [feedbackRows EXCEPT !.req[i] =
       IF check = "ok"
       THEN [@ EXCEPT !.pc = "finding", !.userId = userId, !.messageId = messageId,
                      !.rating = rating]
       ELSE [@ EXCEPT !.pc = "answered", !.answer = IF check = "invalid" THEN 400 ELSE 404]]
  /\ UNCHANGED <<chatVars, moderation, gemini, feedbackFile, store, users>>

\* Feedback.findOne answers with the row of (messageId, userId), if there is one.
FeedbackFindOne(i) ==
  LET q == feedbackRows.req[i]
      hits == {w \in feedbackRows.rows : w.messageId = q.messageId /\ w.userId = q.userId}
  IN  /\ q.pc = "finding"
      /\ \E found \in (IF hits = {} THEN {NoRow} ELSE {w.id : w \in hits}) :
           feedbackRows' = [feedbackRows EXCEPT !.req[i] =
             [@ EXCEPT !.pc = "saving", !.existingFeedback = found]]
      /\ UNCHANGED <<chatVars, moderation, gemini, feedbackFile, store, users>>

\* existingFeedback.update({ rating, comment }), answered 200.
FeedbackUpdate(i) ==
  LET q == feedbackRows.req[i]
  IN  /\ q.pc = "saving" /\ q.existingFeedback # NoRow
      /\ feedbackRows' = [feedbackRows EXCEPT
           !.rows = {IF w.id = q.existingFeedback THEN [w EXCEPT !.rating = q.rating] ELSE w :
                       w \in feedbackRows.rows},
           !.req[i] = [@ EXCEPT !.pc = "answered", !.answer = 200]]
      /\ UNCHANGED <<chatVars, moderation, gemini, feedbackFile, store, users>>

\* Feedback.create({ messageId, userId, rating, comment }), answered 201.
FeedbackCreate(i) ==
  LET q == feedbackRows.req[i]
  IN  /\ q.pc = "saving" /\ q.existingFeedback = NoRow
      /\ feedbackRows' = [feedbackRows EXCEPT
           !.rows = @ \cup {[id |-> i, messageId |-> q.messageId, userId |-> q.userId,
                             rating |-> q.rating]},
           !.req[i] = [@ EXCEPT !.pc = "answered", !.answer = 201]]
      /\ UNCHANGED <<chatVars, moderation, gemini, feedbackFile, store, users>>

NextFeedbackRows ==
  \E i \in Submissions :
    \/ \E userId \in FeedbackUsers, messageId \in FeedbackMessages, rating \in Ratings,
          check \in FeedbackChecks :
         FeedbackSubmit(i, userId, messageId, rating, check)
    \/ FeedbackFindOne(i)
    \/ FeedbackUpdate(i)
    \/ FeedbackCreate(i)

SpecFeedbackRows == InitFeedbackRows /\ [][NextFeedbackRows]_vars

\* --------------------------------------- POST /api/chat, session-based API
\* src/src/routes/chat.ts: one message to one provider, kept in the Message and
\* UsageMetrics tables.  The caller is user u1.
ChatRequests == {1, 2}

\* Sessions of the database: owner and isActive.
StoredSessions ==
  [ s1 |-> [userId |-> "u1", isActive |-> TRUE],
    s2 |-> [userId |-> "u2", isActive |-> TRUE],
    s3 |-> [userId |-> "u1", isActive |-> FALSE] ]

\* body.sessionId: an active session of the caller, a foreign one, an inactive
\* one, one that does not exist.
SessionIds == {"s1", "s2", "s3", "s9"}

\* body.aiProvider
AiProviders == {"openai", "anthropic", "google", "other"}

\* aiResponse.tokenCount of an answer (0 when the provider reports no usage).
TokenCounts == {0, 7}

NoChatRequest == [pc |-> "none", sessionId |-> "-", aiProvider |-> "-", answer |-> 0]

InitStore ==
  /\ pc = "listening"
  /\ avail = {}
  /\ prompt = [kind |-> "undefined", words |-> NoWords]
  /\ rounds = DefaultRounds
  /\ active = <<>>
  /\ moderatorEngine = DefaultModeratorEngine
  /\ language = DefaultLanguage
  /\ r = 0
  /\ task = [rho \in Rounds |-> [p \in Providers |-> "none"]]
  /\ buffers = [rho \in Rounds |-> EmptyMap]
  /\ collected = <<>>
  /\ events = <<>>
  /\ calls = <<>>
  /\ modCalls = <<>>
  /\ roundEnded = {}
  /\ status = 0
  /\ ended = FALSE
  /\ stats = [requests |-> 0, chats |-> 0]
  /\ closedAt = NotClosed
  /\ detectedLang = NoHint
  /\ sessions = <<>>
  /\ router = [hits |-> 0, served |-> <<>>]
  /\ moderation = <<>> /\ gemini = <<>> /\ feedbackFile = <<>> /\ feedbackRows = <<>>
  /\ users = <<>>
  /\ store = [messages |-> {}, usage |-> {}, req |-> [i \in ChatRequests |-> NoChatRequest]]

\* The request arrives: validationResult, then Session.findOne is started.
ChatPost(i, sessionId, aiProvider, valid) ==
  /\ store.req[i].pc = "none"
  /\ store' = [store EXCEPT !.req[i] =
       IF valid
       THEN [@ EXCEPT !.pc = "finding", !.sessionId = sessionId, !.aiProvider = aiProvider]
       ELSE [@ EXCEPT !.pc = "answered", !.answer = 400]]
  /\ UNCHANGED <<chatVars, moderation, gemini, feedbackFile, feedbackRows, users>>

\* Session.findOne answers: the session checks, Message.create for the user
\* message, then the switch over aiProvider starts the provider call.
ChatSessionFound(i) ==
  LET q == store.req[i]
      known == q.sessionId \in DOMAIN StoredSessions
                 /\ StoredSessions[q.sessionId].userId = "u1"
  IN  /\ q.pc = "finding"
      /\ store' =
           IF ~known
           THEN [store EXCEPT !.req[i] = [@ EXCEPT !.pc = "answered", !.answer = 404]]
           ELSE IF ~StoredSessions[q.sessionId].isActive
           THEN [store EXCEPT !.req[i] = [@ EXCEPT !.pc = "answered", !.answer = 400]]
           ELSE IF q.aiProvider \notin {"openai", "anthropic", "google"}
           THEN [store EXCEPT
                   !.messages = @ \cup {[req |-> i, role |-> "user"]},
                   !.req[i] = [@ EXCEPT !.pc = "answered", !.answer = 400]]
           ELSE [store EXCEPT
                   !.messages = @ \cup {[req |-> i, role |-> "user"]},
                   !.req[i] = [@ EXCEPT !.pc = "calling"]]
      /\ UNCHANGED <<chatVars, moderation, gemini, feedbackFile, feedbackRows, users>>

\* The provider answers: the assistant message, the usage record when
\* tokenCount and cost are truthy, session.update, res.json.
ChatProviderAnswers(i, tokenCount) ==
  /\ store.req[i].pc = "calling"
  /\ store' = [store EXCEPT
       !.messages = @ \cup {[req |-> i, role |-> "assistant"]},
       !.usage = IF tokenCount # 0 THEN @ \cup {[req |-> i, tokenCount |-> tokenCount]} ELSE @,
       !.req[i] = [@ EXCEPT !.pc = "answered", !.answer = 200]]
  /\ UNCHANGED <<chatVars, moderation, gemini, feedbackFile, feedbackRows, users>>

\* The provider call throws: the service rethrows, next(error), errorHandler
\* answers 500.
ChatProviderFails(i) ==
  /\ store.req[i].pc = "calling"
  /\ store' = [store EXCEPT !.req[i] = [@ EXCEPT !.pc = "answered", !.answer = 500]]
  /\ UNCHANGED <<chatVars, moderation, gemini, feedbackFile, feedbackRows, users>>

NextStore ==
  \E i \in ChatRequests :
    \/ \E sessionId \in SessionIds, aiProvider \in AiProviders, valid \in BOOLEAN :
         ChatPost(i, sessionId, aiProvider, valid)
    \/ ChatSessionFound(i)
    \/ \E tokenCount \in TokenCounts : ChatProviderAnswers(i, tokenCount)
    \/ ChatProviderFails(i)

SpecStore == InitStore /\ [][NextStore]_vars

\* ---------------------------------------------------- the turn counter
\* src/unnamed/part_004: /api/user/register, /api/user/use-turns and
\* /api/user/set-premium over users.json.  The handlers are synchronous, so
\* each request is one step; the file always loads and saves.
UserIds == {"a", "b"}

\* body.turns of use-turns: a missing or zero value, counts, a negative count.
TurnsInputs == {0 - 1, 0, 1, 2}

\* body.isPremium of use-turns: true, false, or not a boolean.
NotGiven == "absent"
PremiumInputs == {"true", "false", NotGiven}

\* turnsUsed stays within -MaxTurnsUsed..MaxTurnsUsed.
MaxTurnsUsed == 3

NoUser == [registered |-> FALSE, turnsUsed |-> 0, isPremium |-> FALSE]

InitUsers ==
  /\ pc = "listening"
  /\ avail = {}
  /\ prompt = [kind |-> "undefined", words |-> NoWords]
  /\ rounds = DefaultRounds
  /\ active = <<>>
  /\ moderatorEngine = DefaultModeratorEngine
  /\ language = DefaultLanguage
  /\ r = 0
  /\ task = [rho \in Rounds |-> [p \in Providers |-> "none"]]
  /\ buffers = [rho \in Rounds |-> EmptyMap]
  /\ collected = <<>>
  /\ events = <<>>
  /\ calls = <<>>
  /\ modCalls = <<>>
  /\ roundEnded = {}
  /\ status = 0
  /\ ended = FALSE
  /\ stats = [requests |-> 0, chats |-> 0]
  /\ closedAt = NotClosed
  /\ detectedLang = NoHint
  /\ sessions = <<>>
  /\ router = [hits |-> 0, served |-> <<>>]
  /\ moderation = <<>> /\ gemini = <<>> /\ feedbackFile = <<>> /\ feedbackRows = <<>>
  /\ store = <<>>
  /\ users = [file |-> [u \in UserIds |-> NoUser], last |-> [op |-> "-", userId |-> "-", answer |-> 0]]

\* POST /api/user/register
Register(userId) ==
  /\ users' = [ file |-> IF users.file[userId].registered THEN users.file
                         ELSE [users.file EXCEPT ![userId] =
                                [registered |-> TRUE, turnsUsed |-> 0, isPremium |-> FALSE]],
                last |-> [op |-> "register", userId |-> userId, answer |-> 200] ]
  /\ UNCHANGED <<chatVars, moderation, gemini, feedbackFile, feedbackRows, store>>

\* POST /api/user/use-turns
UseTurns(userId, turns, isPremium) ==
  LET u == users.file[userId]
      premium == IF isPremium # NotGiven THEN isPremium = "true" ELSE u.isPremium
      used == IF premium THEN u.turnsUsed ELSE u.turnsUsed + turns
  IN  /\ used \in (0 - MaxTurnsUsed)..MaxTurnsUsed
      /\ users' =
           IF turns = 0
           THEN [users EXCEPT !.last = [op |-> "use-turns", userId |-> userId, answer |-> 400]]
           ELSE IF ~u.registered
           THEN [users EXCEPT !.last = [op |-> "use-turns", userId |-> userId, answer |-> 404]]
           ELSE [ file |-> [users.file EXCEPT ![userId] =
                             [registered |-> TRUE, turnsUsed |-> used, isPremium |-> premium]],
                  last |-> [op |-> "use-turns", userId |-> userId, answer |-> 200] ]
      /\ UNCHANGED <<chatVars, moderation, gemini, feedbackFile, feedbackRows, store>>

\* POST /api/user/set-premium
SetPremium(userId, isPremium) ==
  /\ users' =
       IF ~users.file[userId].registered
       THEN [users EXCEPT !.last = [op |-> "set-premium", userId |-> userId, answer |-> 404]]
       ELSE [ file |-> [users.file EXCEPT ![userId].isPremium = isPremium],
              last |-> [op |-> "set-premium", userId |-> userId, answer |-> 200] ]
  /\ UNCHANGED <<chatVars, moderation, gemini, feedbackFile, feedbackRows, store>>

NextUsers ==
  \E userId \in UserIds :
    \/ Register(userId)
    \/ \E turns \in TurnsInputs, isPremium \in PremiumInputs : UseTurns(userId, turns, isPremium)
    \/ \E isPremium \in BOOLEAN : SetPremium(userId, isPremium)

SpecUsers == InitUsers /\ [][NextUsers]_vars

\* ------------------------------------------------------------------ claims
\* What the stream and the call log show of a round.
HasEvent(type, model, rho) ==
  \E i \in DOMAIN events :
    events[i].type = type /\ events[i].model = model /\ events[i].round = rho

CountEvents(type) ==
  LET Is(e) == e.type = type IN Len(SelectSeq(events, Is))

\* The text provider q was seen to deliver in round rho: its chunk events, in order.
ChunkText(q, rho) ==
  LET Is(e) == e.type = "chunk" /\ e.model = q /\ e.round = rho
      sel == SelectSeq(events, Is)
  IN  [i \in DOMAIN sel |-> sel[i].text[1]]

\* Round rho has begun: its round event is out or one of its calls is issued.
RoundBegun(rho) ==
  HasEvent("round", "-", rho) \/ \E i \in DOMAIN calls : calls[i].round = rho

PastRounds == pc \in {"moderating", "done", "crashed"} /\ active # <<>>

\* C1: round rho+1 has not begun (no round event, no prompt, no call) unless
\* every enabled provider's task of round rho has settled.
C1_RoundBarrier ==
  \A rho \in Rounds :
    (rho + 1 \in Rounds /\ RoundBegun(rho + 1)) =>
      \A p \in ActiveSet : Settled(rho, p)

\* C1 witness: round 2 has begun after a round 1 in which one provider threw
\* and another streamed a fragment.
C1_Witness ==
  /\ RoundBegun(2)
  /\ \E p, q \in ActiveSet :
       p # q /\ task[1][p] = "failed" /\ ChunkText(q, 1) # <<>>

\* C2: when a provider's task of round rho has thrown, every other enabled
\* provider's task of that round is running or settled, can still reach its
\* settlement, has had each fragment it delivered forwarded as a chunk, the
\* handler has not stopped, and once the handler is past its rounds every
\* round up to the last has been started.
C2_FailureIsolated ==
  \A rho \in Rounds : \A p \in ActiveSet :
    task[rho][p] = "failed" =>
      /\ \A q \in ActiveSet \ {p} :
           /\ task[rho][q] # "none"
           /\ task[rho][q] = "streaming" => ENABLED TaskEnd(rho, q)
           /\ ChunkText(q, rho) = buffers[rho][q]
      /\ pc \in {"round", "moderating", "done", "crashed"}
      /\ pc \in {"moderating", "done", "crashed"} =>
           \A later \in rho..LastRound(rounds) :
             /\ RoundBegun(later)
             /\ \A q \in ActiveSet : Settled(later, q)

\* C2 witness: a provider threw in round 1, another delivered a fragment in
\* that round, and the handler went on to finish a second round.
C2_Witness ==
  /\ PastRounds
  /\ LastRound(rounds) >= 2
  /\ \E p, q \in ActiveSet :
       p # q /\ task[1][p] = "failed" /\ ChunkText(q, 1) # <<>>

\* The text of a provider-labelled error message for p's call of round rho.
ErrorText(p, rho) == <<[model |-> p, round |-> rho, k |-> 0]>>

\* C3 (as claimed): after a round in which provider p failed, the transcript
\* holds p's entry for the round with a labelled error text, and every other
\* enabled provider has a message event for the round.
C3_FailedEntryIsErrorText ==
  \A rho \in roundEnded : \A p \in ActiveSet :
    task[rho][p] = "failed" =>
      /\ \E i \in DOMAIN collected :
           collected[i] = [model |-> p, round |-> rho, text |-> ErrorText(p, rho)]
      /\ \A q \in ActiveSet \ {p} : HasEvent("message", q, rho)

C5_NoTimeTravel ==
  /\ \A i \in DOMAIN calls :
       \A j \in DOMAIN calls[i].prompt.lines :
         \A k \in DOMAIN calls[i].prompt.lines[j].text :
           calls[i].prompt.lines[j].text[k].round < calls[i].round
  /\ pc = "round" =>
       \A i \in DOMAIN collected :
         /\ collected[i].round < r
         /\ \A k \in DOMAIN collected[i].text : collected[i].text[k].round < r

\* C5 witness: in round 2 a task has settled after delivering a fragment
\* while another task of the round, whose prompt carries round-1 text, is
\* still streaming.
C5_Witness ==
  /\ pc = "round" /\ r = 2
  /\ \E p, q \in ActiveSet :
       /\ task[2][p] = "done" /\ buffers[2][p] # <<>>
       /\ task[2][q] = "streaming"
       /\ \E i \in DOMAIN calls :
            calls[i].model = q /\ calls[i].round = 2 /\ calls[i].prompt.lines # <<>>

\* C6 (as claimed): once the rounds are over and the transcript has an entry,
\* exactly one moderator call has been issued, and it was issued after the
\* last round ended.
C6_ModeratorCalledOnce ==
  (PastRounds /\ collected # <<>>) =>
    /\ Len(modCalls) = 1
    /\ roundEnded = 1..LastRound(rounds)

\* C7 (as claimed): a request with rounds = 1 that is past its round has one
\* round start, one round end and exactly one transcript entry for each
\* enabled provider.
C7_OneEntryPerProvider ==
  (PastRounds /\ rounds = 1) =>
    /\ CountEvents("round") = 1
    /\ roundEnded = {1}
    /\ Len(collected) = Len(active)
    /\ \A p \in ActiveSet :
         \E i \in DOMAIN collected : collected[i].model = p /\ collected[i].round = 1

\* C8: a request with a prompt and no enabled and available provider has, as
\* soon as it is received, its error event out with only done after it and
\* the stream closed; it has no round event and has called no provider.
C8_NoProvidersError ==
  (pc \notin {"idle", "rejected"} /\ active = <<>>) =>
    /\ pc = "done" /\ ended
    /\ CountEvents("error") = 1
    /\ events[Len(events) - 1].type = "error"
    /\ events[Len(events)].type = "done"
    /\ CountEvents("round") = 0
    /\ calls = <<>> /\ modCalls = <<>>

\* C8 witness: such a request has been answered, every provider being
\* available and the body having switched all of them off.
C8_Witness ==
  /\ pc = "done" /\ active = <<>> /\ avail = Providers
  /\ CountEvents("error") = 1

\* C9 (as claimed): a request without a prompt, or with no provider enabled,
\* is answered by one error alone: a 400 with no event, or one error event
\* with no meta, round, chunk, message or moderator event.
C9_SingleErrorOnly ==
  (pc \in {"rejected", "done"} /\ (PromptMissing(prompt) \/ active = <<>>)) =>
    /\ \/ status = 400 /\ events = <<>>
       \/ status = 0 /\ CountEvents("error") = 1
    /\ \A i \in DOMAIN events : events[i].type \in {"error", "done"}
    /\ calls = <<>> /\ modCalls = <<>>

\* The message and provider_error events of round rho, in order.
RoundReports(evs, rho) ==
  LET Is(e) == e.type \in {"message", "provider_error"} /\ e.round = rho
  IN  SelectSeq(evs, Is)

\* Every report round rho owes is out: a provider_error for each task that
\* threw, a message for each provider with text.
ReportsComplete(rho) ==
  \A p \in ActiveSet :
    /\ task[rho][p] = "failed" => HasEvent("provider_error", p, rho)
    /\ buffers[rho][p] # <<>> => HasEvent("message", p, rho)

\* C10: when round rho ends, every message and provider_error of the round
\* is already out, and no step after its end adds a message or
\* provider_error of that round.
C10_ReportsBeforeRoundEnd ==
  [][ \A rho \in Rounds :
        /\ rho \in roundEnded' => ReportsComplete(rho)'
        /\ rho \in roundEnded =>
             RoundReports(events', rho) = RoundReports(events, rho) ]_vars

\* C10 witness: round 1 has ended with a provider_error and a message out.
C10_Witness ==
  /\ 1 \in roundEnded
  /\ \E p, q \in ActiveSet :
       HasEvent("provider_error", p, 1) /\ HasEvent("message", q, 1)

\* The first n fragments provider p's stream produces for its call of round rho.
Produced(p, rho, n) == [i \in 1..n |-> [model |-> p, round |-> rho, k |-> i]]

C12_ModeratorFailureRecovered ==
  pc = "crashed" =>
    /\ CountEvents("error") = 1
    /\ \A rho \in 1..LastRound(rounds) : HasEvent("round", "-", rho)
    /\ events[Len(events)].type = "done"
    /\ ended

\* C13 (as claimed): once the rounds are over, the moderator has been called
\* on an available adapter: the requested engine's when it is available,
\* otherwise some other available one.
C13_FallbackToAnyAdapter ==
  PastRounds =>
    /\ modCalls # <<>>
    /\ modCalls[1].model \in avail
    /\ moderatorEngine \in avail => modCalls[1].model = moderatorEngine

\* C14: once the rounds are over, a requested moderator engine whose client
\* is available is the one called as moderator, whether or not it was among
\* the providers of the debate; no moderator call goes to a missing client.
C14_ModeratorIndependentOfPanel ==
  PastRounds =>
    /\ moderatorEngine \in avail =>
         modCalls # <<>> /\ modCalls[1].model = moderatorEngine
    /\ \A i \in DOMAIN modCalls : modCalls[i].model \in avail

\* C14 witness: the moderator call went to the requested engine, which the
\* body had switched off for the debate.
C14_Witness ==
  /\ modCalls # <<>>
  /\ modCalls[1].model = moderatorEngine
  /\ moderatorEngine \notin ActiveSet

\* C15 (as claimed): once the client has gone away, the provider calls go on
\* and the handler does not stop, but no event is written any more: the
\* events written are the ones that were out when the client left.
C15_NoWriteAfterClose ==
  closedAt # NotClosed => Len(events) = closedAt

\* How many calls of round rho went to provider p.
CallsOf(p, rho) ==
  LET Is(c) == c.model = p /\ c.round = rho IN Len(SelectSeq(calls, Is))

\* C16: in every round that has started, each enabled provider has been
\* called exactly once and no other provider at all, whatever failed before;
\* and a request past its rounds has started every round 1..R.
C16_OneCallPerProviderPerRound ==
  /\ \A rho \in Rounds : \A p \in Providers :
       CallsOf(p, rho) =
         IF HasEvent("round", "-", rho) /\ p \in ActiveSet THEN 1 ELSE 0
  /\ PastRounds =>
       \A rho \in 1..LastRound(rounds) : HasEvent("round", "-", rho)

\* C16 witness: a provider that threw in round 1 has its one call of round 2.
C16_Witness ==
  \E p \in ActiveSet :
    /\ HasEvent("provider_error", p, 1)
    /\ CallsOf(p, 1) = 1
    /\ CallsOf(p, 2) = 1

\* The ordinals of the round events written, in order.
RoundsStarted ==
  LET Is(e) == e.type = "round"
      sel == SelectSeq(events, Is)
  IN  [i \in DOMAIN sel |-> sel[i].round]

\* C17: the rounds started so far are 1, 2, ..., k in this order with
\* k <= R = min(3, max(1, rounds)), calls exist for exactly these rounds, and
\* a request past its rounds has started exactly R of them.
C17_RoundsOneToR ==
  LET R == Min(MaxRounds, Max(MinRounds, rounds))
      k == Len(RoundsStarted)
  IN  /\ RoundsStarted = [i \in 1..k |-> i]
      /\ k <= R
      /\ \A i \in DOMAIN calls : calls[i].round \in 1..k
      /\ PastRounds => k = R

\* C17 witness: a request asking for more than three rounds is past its
\* rounds, having started three.
C17_Witness ==
  /\ PastRounds
  /\ rounds > MaxRounds
  /\ Len(RoundsStarted) = MaxRounds

TopCodes(words) ==
  {c \in Range(LangCodes) :
     \A d \in Range(LangCodes) : Score(c, words) >= Score(d, words)}

\* C19 (as claimed): with no hint, the language resolved for a question is
\* the one code with the strictly highest score, and English when the highest
\* score is shared or every score is zero.
C19_HighestScoreElseEnglish ==
  (pc = "resolved" /\ language = NoHint) =>
    LET top == TopCodes(prompt.words)
    IN  detectedLang = IF Cardinality(top) = 1 THEN CHOOSE c \in top : TRUE ELSE "en"

\* C20: the language of the body is the language of the system instruction
\* of every provider call of every round and of the moderator call, the same
\* value in all of them.
C20_LanguageVerbatim ==
  /\ \A i \in DOMAIN calls : calls[i].system.language = language
  /\ \A i \in DOMAIN modCalls : modCalls[i].system.language = language

\* C20 witness: a request with a language other than the default has calls
\* of two rounds and a moderator call.
C20_Witness ==
  /\ language # DefaultLanguage
  /\ \E i, j \in DOMAIN calls : calls[i].round = 1 /\ calls[j].round = 2
  /\ modCalls # <<>>

\* C21 (as claimed): when one of two enabled providers has thrown in a
\* one-round request, the other has answered with text and the round is over,
\* a provider_error is out for the first, a message is out for the other, the
\* round has ended, and the moderator prompt holds a line of the other
\* provider and none of the one that threw.
C21_OnlySurvivorModerated ==
  \A p, q \in ActiveSet :
    (PastRounds /\ Len(active) = 2 /\ p # q /\ rounds = 1
       /\ task[1][p] = "failed" /\ task[1][q] = "done" /\ ChunkText(q, 1) # <<>>) =>
      /\ HasEvent("provider_error", p, 1)
      /\ HasEvent("message", q, 1)
      /\ 1 \in roundEnded
      /\ LET lines == moderatorPrompt(language, collected, rounds).lines
         IN  /\ \E i \in DOMAIN lines : lines[i].model = q
             /\ \A i \in DOMAIN lines : lines[i].model # p

\* C22 (as claimed): every request accepted for streaming eventually has its
\* done event out; done is out at most once and is the last event written.
C22_EventuallyDoneOnce ==
  /\ (pc \notin {"idle", "rejected"}) ~> (CountEvents("done") = 1)
  /\ [](/\ CountEvents("done") <= 1
        /\ CountEvents("done") = 1 => events[Len(events)].type = "done")

\* Some line of a prompt or transcript of request i carries text that a
\* provider call of the other request produced.
ForeignText(i, lines) ==
  \E k \in DOMAIN lines : \E f \in Range(lines[k].text) : f.req # i

\* C23: with two requests in flight in one process, every round prompt and the
\* moderator prompt of a request are built only from text produced by that
\* request's own provider calls; the transcript is not shared.
C23_NoSharedTranscript ==
  \A i \in Requests :
    /\ \A c \in DOMAIN sessions[i].calls :
         ~ForeignText(i, sessions[i].calls[c].prompt.lines)
    /\ ~ForeignText(i, sessions[i].modPrompt.lines)
    /\ ~ForeignText(i, sessions[i].collected)

\* Both requests are in their second round at once, each with a round prompt
\* that quotes text of its own first round.
C23_Witness ==
  \A i \in Requests :
    /\ sessions[i].pc = "round" /\ sessions[i].r = 2
    /\ \E c \in DOMAIN sessions[i].calls :
         /\ sessions[i].calls[c].round = 2
         /\ sessions[i].calls[c].prompt.lines # <<>>

\* A fragment without the request it belongs to.
Untagged(text) == [k \in DOMAIN text |-> [model |-> text[k].model, round |-> text[k].round, k |-> text[k].k]]

\* What a request did, leaving out the instruction text of its prompts: the
\* round it is in, the event types sent, the providers called and the rest of
\* each prompt.
Conduct(s) ==
  [ pc |-> s.pc,
    r |-> s.r,
    kinds |-> s.kinds,
    calls |-> [c \in DOMAIN s.calls |->
                [ model |-> s.calls[c].model,
                  round |-> s.calls[c].round,
                  base |-> s.calls[c].prompt.base,
                  stage |-> s.calls[c].prompt.instruction.round,
                  context |-> s.calls[c].prompt.context,
                  lines |-> [k \in DOMAIN s.calls[c].prompt.lines |->
                              [ model |-> s.calls[c].prompt.lines[k].model,
                                text |-> Untagged(s.calls[c].prompt.lines[k].text) ]] ]],
    moderator |-> [ scope |-> s.modPrompt.scope,
                    language |-> s.modPrompt.language,
                    lines |-> [k \in DOMAIN s.modPrompt.lines |->
                                [ model |-> s.modPrompt.lines[k].model,
                                  round |-> s.modPrompt.lines[k].round,
                                  text |-> Untagged(s.modPrompt.lines[k].text) ]] ] ]

\* C24: two runs of the same request that differ only in the classifier's
\* result, with the providers behaving identically, start the same rounds,
\* call the same providers and send the same sequence of event types; the
\* prompts differ in their instruction text only.
C24_SeriousnessOnlySoftens ==
  \A i, j \in Requests :
    (sessions[i].serious # sessions[j].serious /\ sessions[i].trace = sessions[j].trace) =>
      Conduct(sessions[i]) = Conduct(sessions[j])

\* A flagged and an unflagged run, through the same provider behaviour, have
\* both finished two rounds, with text quoted in the second round's prompts.
C24_Witness ==
  /\ sessions[1].serious # sessions[2].serious
  /\ sessions[1].trace = sessions[2].trace
  /\ sessions[1].pc = "done" /\ sessions[2].pc = "done"
  /\ \E c \in DOMAIN sessions[1].calls :
       /\ sessions[1].calls[c].round = 2
       /\ sessions[1].calls[c].prompt.lines # <<>>
       /\ sessions[1].calls[c].prompt.instruction # sessions[2].calls[c].prompt.instruction

\* C25: the prompt of every moderator call lists every transcript entry of
\* every round of the request, each with its provider and its round, in
\* transcript order; no entry is left out.
C25_ModeratorSeesAllEntries ==
  \A c \in DOMAIN modCalls :
    /\ modCalls[c].prompt.lines = collected
    /\ \A k \in DOMAIN collected : collected[k].round \in modCalls[c].prompt.scope

\* A moderator call whose prompt lists entries of two different rounds.
C25_Witness ==
  \E c \in DOMAIN modCalls :
    \E k, l \in DOMAIN modCalls[c].prompt.lines :
      modCalls[c].prompt.lines[k].round # modCalls[c].prompt.lines[l].round

\* C26 (as claimed): every request whose method and path match no registered
\* route is answered with status 404 and an error object with a message and the
\* code NOT_FOUND, whatever was served before it.
C26_UnmatchedIs404 ==
  \A k \in DOMAIN router.served :
    LET q == router.served[k]
    IN  ~Registered(q.method, q.path) =>
          /\ q.answer.status = 404
          /\ q.answer.error
          /\ q.answer.message # <<>>
          /\ q.answer.code = "NOT_FOUND"

\* The transcript entries of provider p for round rho.
EntriesOf(p, rho) ==
  LET Is(c) == c.model = p /\ c.round = rho IN SelectSeq(collected, Is)

\* C27: when a provider's task has finished a round without error, the text of
\* its transcript entry is the concatenation, in order, of exactly the texts of
\* the chunk events sent for that provider in that round: no fragment is lost,
\* duplicated or reordered between forwarding and accumulation.
C27_EntryIsChunkConcatenation ==
  \A rho \in roundEnded : \A p \in ActiveSet :
    task[rho][p] = "done" =>
      /\ \A k \in DOMAIN EntriesOf(p, rho) : EntriesOf(p, rho)[k].text = ChunkText(p, rho)
      /\ ChunkText(p, rho) # <<>> => EntriesOf(p, rho) # <<>>

\* A provider finished a round after two fragments and has its entry.
C27_Witness ==
  \E rho \in roundEnded : \E p \in ActiveSet :
    /\ task[rho][p] = "done"
    /\ Len(ChunkText(p, rho)) = 2
    /\ EntriesOf(p, rho) # <<>>

\* C28 (as claimed): the message event for a provider and a round carries the
\* provider's full accumulated text for that round, the text of its transcript
\* entry.
C28_MessageCarriesFullText ==
  \A i \in DOMAIN events :
    events[i].type = "message" =>
      \A k \in DOMAIN EntriesOf(events[i].model, events[i].round) :
        events[i].text = EntriesOf(events[i].model, events[i].round)[k].text

\* C29: an entry that is in the transcript is never changed or removed for the
\* rest of the request: every step leaves the transcript as it is or appends to
\* it, and the entries stand in non-decreasing round order.
C29_TranscriptAppendOnly ==
  /\ [](\A k, l \in DOMAIN collected : k <= l => collected[k].round <= collected[l].round)
  /\ [][/\ Len(collected) <= Len(collected')
        /\ SubSeq(collected', 1, Len(collected)) = collected]_vars

\* The transcript holds entries of an earlier and of a later round.
C29_Witness ==
  \E k, l \in DOMAIN collected : k < l /\ collected[k].round < collected[l].round

\* C30: during a round, each step of a provider's task (a delta, the end of the
\* stream, a failure) changes the accumulation buffer of that provider only: it
\* leaves every other provider's buffer, every buffer of another round and
\* every transcript entry as they were; an event it sends names that provider.
C30_TaskWritesOwnBufferOnly ==
  [][(pc = "round" /\ pc' = "round" /\ r' = r) =>
       /\ collected' = collected
       /\ \E p \in ActiveSet :
            /\ \A rho \in Rounds :
                 /\ DOMAIN buffers'[rho] = DOMAIN buffers[rho]
                 /\ \A q \in DOMAIN buffers[rho] :
                      (q # p \/ rho # r) => buffers'[rho][q] = buffers[rho][q]
                 /\ \A q \in Providers :
                      (q # p \/ rho # r) => task'[rho][q] = task[rho][q]
            /\ Len(events') > Len(events) =>
                 /\ Len(events') = Len(events) + 1
                 /\ events'[Len(events')].model = p]_vars

\* Two providers of the same round have each accumulated text of their own.
C30_Witness ==
  /\ pc = "round"
  /\ \E p, q \in ActiveSet :
       /\ p # q
       /\ buffers[r][p] # <<>> /\ buffers[r][q] # <<>>
       /\ \A k \in DOMAIN buffers[r][p] : buffers[r][p][k].model = p
       /\ \A k \in DOMAIN buffers[r][q] : buffers[r][q][k].model = q

\* A builder has returned a prompt.
Built(b) == moderation.out[b] # NotBuilt /\ moderation.out[b] # Thrown

\* C31 (as claimed): the guidance sentence in the moderator prompt is a function
\* of the requested style alone: each of the five styles yields its own fixed
\* sentence, whatever the round count and the transcript.
C31_GuidanceFromStyleAlone ==
  \A b \in {"part_002", "part_004"} :
    (Built(b) /\ moderation.style \in KnownStyles) =>
      moderation.out[b].guidance = Sentence(moderation.style)

\* C35 (as claimed): a moderator style outside the five known names never makes
\* the request fail: every prompt builder returns, with the neutral guidance.
C35_UnknownStyleIsNeutral ==
  \A b \in Builders :
    (moderation.out[b] # NotBuilt /\ moderation.style \notin KnownStyles) =>
      /\ moderation.out[b] # Thrown
      /\ moderation.out[b].guidance = Sentence("neutral")

\* C32: once a round has ended, a transcript entry and a message event exist
\* for a provider and that round exactly when the provider forwarded at least
\* one fragment in it, whether or not its task threw afterwards; a provider
\* that threw after partial output has a provider_error event as well, and a
\* round that has not ended has neither entries nor message events.
C32_EntryIffForwarded ==
  \A rho \in Rounds : \A p \in Providers :
    /\ Len(EntriesOf(p, rho)) <= 1
    /\ EntriesOf(p, rho) # <<>> <=> (rho \in roundEnded /\ ChunkText(p, rho) # <<>>)
    /\ HasEvent("message", p, rho) <=> (rho \in roundEnded /\ ChunkText(p, rho) # <<>>)
    /\ (task[rho][p] = "failed") => HasEvent("provider_error", p, rho)

\* A provider threw after partial output and has its entry, its message event
\* and its provider_error event; another provider of the round yielded nothing
\* and has neither entry nor message.
C32_Witness ==
  \E rho \in roundEnded : \E p, q \in ActiveSet :
    /\ task[rho][p] = "failed" /\ ChunkText(p, rho) # <<>>
    /\ EntriesOf(p, rho) # <<>> /\ HasEvent("message", p, rho)
    /\ HasEvent("provider_error", p, rho)
    /\ task[rho][q] = "done" /\ ChunkText(q, rho) = <<>>
    /\ EntriesOf(q, rho) = <<>> /\ ~HasEvent("message", q, rho)

\* The place of a provider in the handler's `active` array.
PlaceOf(p) == CHOOSE k \in DOMAIN active : active[k] = p

\* The place in the stream of provider p's first chunk event of round rho.
FirstChunkAt(p, rho) ==
  CHOOSE i \in DOMAIN events :
    /\ events[i].type = "chunk" /\ events[i].model = p /\ events[i].round = rho
    /\ events[i].text[1].k = 1

\* C33: the order of a round's entries in the transcript is fixed by the
\* request alone (the order of the `active` array), whatever the interleaving
\* of fragment arrivals and the completion order of the round's tasks; rounds
\* follow each other in increasing order.
C33_EntryOrderFixed ==
  \A k, l \in DOMAIN collected :
    k < l =>
      \/ collected[k].round < collected[l].round
      \/ /\ collected[k].round = collected[l].round
         /\ PlaceOf(collected[k].model) < PlaceOf(collected[l].model)

\* Two providers have entries for a round in which the later one in `active`
\* delivered its first fragment before the earlier one.
C33_Witness ==
  \E k, l \in DOMAIN collected :
    /\ k < l
    /\ collected[k].round = collected[l].round
    /\ FirstChunkAt(collected[l].model, collected[l].round)
         < FirstChunkAt(collected[k].model, collected[k].round)

\* C34: the message events of a round are sent only after every task of the
\* round has settled: no message event of a round stands before a chunk or
\* provider_error event of the same round, and while a message event of a
\* round is in the stream no task of that round is still streaming.
C34_MessagesAfterBarrier ==
  /\ \A i, j \in DOMAIN events :
       (i < j /\ events[i].type = "message"
          /\ events[j].type \in {"chunk", "provider_error"}) =>
         events[j].round # events[i].round
  /\ \A i \in DOMAIN events :
       events[i].type = "message" =>
         \A p \in ActiveSet : task[events[i].round][p] \in {"done", "failed"}

\* A provider sent its only fragment, another provider of the round sent a
\* fragment after it, and the first provider's message event follows both.
C34_Witness ==
  \E i, j, k \in DOMAIN events :
    /\ i < j /\ j < k
    /\ events[i].type = "chunk" /\ events[j].type = "chunk" /\ events[k].type = "message"
    /\ events[i].round = events[k].round /\ events[j].round = events[k].round
    /\ events[i].model = events[k].model /\ events[j].model # events[k].model

\* C36 (as claimed): chunksFromGemini loses no text: when the stream has
\* ended, the concatenation of the deltas yielded is the full text the stream
\* carried, the last item for cumulative snapshots and the concatenation of all
\* items for independent deltas, also when an item repeats or extends the one
\* before it.
C36_GeminiLosesNoText ==
  gemini.pos = Len(gemini.items) =>
    Joined(gemini.yielded) =
      IF gemini.mode = "deltas" THEN Joined(gemini.items)
      ELSE IF gemini.items = <<>> THEN <<>>
      ELSE gemini.items[Len(gemini.items)]

\* C37 (as claimed): every feedback POST answered with success: true is in
\* feedback.json afterwards, also when several feedback requests are handled
\* at the same time.
C37_AcceptedFeedbackKept ==
  \A i \in FeedbackRequests :
    feedbackFile.req[i].answer = "success" => i \in Range(feedbackFile.file)

\* C38 (as claimed): at every time there is at most one Feedback row per
\* (messageId, userId), also when two submissions are processed at the same
\* time.
C38_OneRowPerMessageAndUser ==
  \A v, w \in feedbackRows.rows :
    (v.messageId = w.messageId /\ v.userId = w.userId) => v.id = w.id

\* C39 (as claimed): a request of the session-based POST /api/chat that ends in
\* an error has persisted nothing: no user message, no assistant message and
\* no usage record of that request is stored.
C39_ErrorPersistsNothing ==
  \A i \in ChatRequests :
    (store.req[i].pc = "answered" /\ store.req[i].answer # 200) =>
      /\ \A w \in store.messages : w.req # i
      /\ \A u \in store.usage : u.req # i

\* C40 (as claimed): over every sequence of register, use-turns and set-premium
\* requests a user's turnsUsed never decreases, and a use-turns request leaves
\* turnsUsed as it was whenever the user is premium once the request's
\* isPremium value has been applied.
C40_TurnsNeverDecrease ==
  [][\A u \in UserIds :
       /\ users'.file[u].turnsUsed >= users.file[u].turnsUsed
       /\ (users'.last = [op |-> "use-turns", userId |-> u, answer |-> 200]
             /\ users'.file[u].isPremium) =>
            users'.file[u].turnsUsed = users.file[u].turnsUsed]_vars
====
